---- MODULE Spec2Model ----
(***************************************************************************)
(* Model of rename_files.py: the tool that strips a trailing '@domain'    *)
(* from the stem of every .conf file of a directory tree.                  *)
(*                                                                         *)
(* File names are sequences of one-character strings, so that stem,        *)
(* suffix, split('@', 1) and the 'stem-i.ext' formatting are computed the  *)
(* way the program computes them.  The filesystem is a small tree of       *)
(* directories (a chain root/d1/d2...), each holding regular files; a      *)
(* subdirectory occupies a name in its parent.  One behaviour is one       *)
(* invocation of main, optionally followed by a second, real invocation on *)
(* the same path with the same recursive flag (the usage the header of the *)
(* script documents: a --dry-run, then the real run).                      *)
(***************************************************************************)
EXTENDS Integers, Sequences, FiniteSets, TLC

(* ------------------------------ bounds -------------------------------- *)
\* deepest directory below the root (directories are 0..Depth, 0 the root)
Depth == 2
\* number of regular files in the whole initial tree
MaxFiles == 3
\* longest name given to compute_target_name in the pure specification
MaxLen == 4

(* ------------------------------ names --------------------------------- *)
CONF == <<".", "c", "o", "n", "f">>
TXT == <<".", "t", "x", "t">>

\* the file names the initial tree is drawn from
FileNames ==
  { <<"a", "@", "x">> \o CONF,
    <<"a", "@", "x", "@", "y">> \o CONF,
    <<"a">> \o CONF,
    <<"@", "x">> \o CONF,
    CONF,
    <<"a", "@", "x">> \o TXT }

\* the names the first-level subdirectory may have
DirNames == { <<"s", "u", "b">>, <<"a">> \o CONF }
SubName == <<"s", "u", "b">>

Dirs == 0..Depth
Root == 0

\* Python's None, as a value no file name is equal to
None == << "None" >>
\* ret before compute_target_name has been called
Unset == << "Unset" >>
\* exitcode while the process is running
Running == -1

VARIABLES
  files,      \* files[d]: names of the regular files of directory d
  dirName,    \* name of directory 1 inside the root
  rootIsDir,  \* whether the path argument is a directory
  recursive,  \* args.recursive
  dry_run,    \* args.dry_run
  pc,         \* "main", "walk", "exit", "crashed"
  todo,       \* directories the iterator has still to list
  cur,        \* directory whose listing is being iterated
  pending,    \* entries of the listing of cur not yet yielded
  renamed,    \* renamed counter of rename_in_directory
  skipped,    \* skipped counter of rename_in_directory
  out,        \* the per-file lines printed on standard output
  summary,    \* the summary line, << >> until it is printed
  err,        \* lines printed on standard error
  exitcode,   \* process exit status, Running until the process ends
  run,        \* 1 for the first invocation, 2 for the second
  before,     \* files at the start of the current invocation
  order,      \* <<directory, name>> pairs in the order the iterator yielded
  last,       \* << the last rename planned by the loop body >>, or << >>
  first,      \* << what is remembered of the first invocation >>, << >>
              \* until the second starts
  arg,        \* pure specification: the name given to compute_target_name
  ret         \* pure specification: its result, Unset before the call

vars == << files, dirName, rootIsDir, recursive, dry_run, pc, todo, cur,
           pending, renamed, skipped, out, summary, err, exitcode, run, before,
           order, last, first, arg, ret >>

(* --------------------------- pathlib / str ---------------------------- *)
\* index of the last '.' of name, 0 if there is none (str.rfind, 1-based)
RECURSIVE RFindDot(_, _)
RFindDot(name, k) ==
  IF k = 0 THEN 0
  ELSE IF name[k] = "." THEN k ELSE RFindDot(name, k - 1)

\* PurePath.suffix: from the last '.', unless it is first or last character
Suffix(name) ==
  LET p == RFindDot(name, Len(name))
  IN IF p > 1 /\ p < Len(name) THEN SubSeq(name, p, Len(name)) ELSE << >>

\* PurePath.stem: the name without its suffix
Stem(name) ==
  LET p == RFindDot(name, Len(name))
  IN IF p > 1 /\ p < Len(name) THEN SubSeq(name, 1, p - 1) ELSE name

\* str(i) for a non-negative integer
Digits == <<"0", "1", "2", "3", "4", "5", "6", "7", "8", "9">>
RECURSIVE DecStr(_)
DecStr(i) ==
  IF i < 10 THEN << Digits[i + 1] >>
  ELSE DecStr(i \div 10) \o << Digits[(i % 10) + 1] >>

\* mutant: base.rsplit('@', 1)[0], the part before the last '@'
RECURSIVE SplitAtLast(_, _)
SplitAtLast(base, k) ==
  IF k > Len(base) THEN base
  ELSE IF base[Len(base) + 1 - k] = "@" THEN SubSeq(base, 1, Len(base) - k)
  ELSE SplitAtLast(base, k + 1)

\* base.split('@', 1)[0]: the part of base before its first '@'
RECURSIVE SplitAtFirst(_, _)
SplitAtFirst(base, k) ==
  IF k > Len(base) THEN base
  ELSE IF base[k] = "@" THEN SubSeq(base, 1, k - 1)
  ELSE SplitAtFirst(base, k + 1)

\* the pattern '*.conf' of glob / rglob
MatchesConf(name) ==
  /\ Len(name) >= Len(CONF)
  /\ SubSeq(name, Len(name) - Len(CONF) + 1, Len(name)) = CONF

(* ---------------------------- filesystem ------------------------------ *)
Children(d) == IF d < Depth THEN {d + 1} ELSE {}
NameOfDir(d) == IF d = 1 THEN dirName ELSE SubName

\* names of the subdirectories of directory d
SubdirNames(d) ==
  IF rootIsDir THEN { NameOfDir(c) : c \in Children(d) } ELSE {}

\* every name that exists in directory d (Path.exists)
Entries(fs, d) == fs[d] \cup SubdirNames(d)

\* os.rename within directory d: the entry old gets the name new, replacing
\* a regular file that has that name
RenameFile(fs, d, old, new) ==
  [fs EXCEPT ![d] = (@ \ {old}) \cup {new}]

(* ------------------------- next_available_name ------------------------ *)
RECURSIVE next_available_loop(_, _, _, _, _)
next_available_loop(existing, stem, ext, candidate, i) ==
  IF candidate \in existing
  THEN next_available_loop(existing, stem, ext,
                           stem \o <<"-">> \o DecStr(i) \o ext, i + 1)
  ELSE candidate

\* mutant: the first numbered candidate is taken without looking
next_available_name_once(existing, stem, ext) ==
  IF (stem \o ext) \in existing
  THEN stem \o <<"-">> \o DecStr(1) \o ext
  ELSE stem \o ext

\* mutant: the numbering starts at 2
next_available_name_from2(existing, stem, ext) ==
  next_available_loop(existing, stem, ext, stem \o ext, 2)

next_available_name(existing, stem, ext) ==
  next_available_loop(existing, stem, ext, stem \o ext, 1)

(* ------------------------- compute_target_name ------------------------ *)
\* mutant: the suffix is not put back
compute_target_name_no_suffix(src) ==
  LET base == Stem(src)
      pre == SplitAtFirst(base, 1)
  IN IF pre = base THEN None ELSE pre

compute_target_name(src) ==
  LET base == Stem(src)
      pre == SplitAtFirst(base, 1)
  IN IF pre = base THEN None ELSE pre \o Suffix(src)

(* ------------------------- rename_in_directory ------------------------ *)
\* lines 43-47: the final name of file in directory d with the directory as
\* it is now
final_target(fs, d, target_basename) ==
  IF target_basename \in Entries(fs, d)
  THEN next_available_name(Entries(fs, d), Stem(target_basename),
                           Suffix(target_basename))
  ELSE target_basename

\* the listing of directory d the iterator takes when it reaches d: glob
\* and rglob read a directory once, whole, and yield the matching entries
\* of that listing in an order the program does not fix
Listing(fs, d) == { n \in Entries(fs, d) : MatchesConf(n) }

\* what the loop body decided for file: target_basename of line 39, the
\* target of lines 43-47 and the names that existed in file.parent then
Plan(d, file, target_basename, target) ==
  [dir |-> d, old |-> file, desired |-> target_basename, final |-> target,
   existing |-> Entries(files, d), dry |-> dry_run]

(* ------------------------------- Init --------------------------------- *)
Slots == Dirs \X FileNames
EmptyTree == [d \in Dirs |-> {}]

\* the trees that hold at most k regular files
RECURSIVE TreesUpTo(_)
TreesUpTo(k) ==
  IF k = 0 THEN { EmptyTree }
  ELSE LET T == TreesUpTo(k - 1)
       IN T \cup { [t EXCEPT ![s[1]] = @ \cup {s[2]}] : t \in T, s \in Slots }

InitialTrees == TreesUpTo(MaxFiles)

Init ==
  /\ files \in InitialTrees
  /\ rootIsDir \in BOOLEAN
  /\ dirName \in DirNames
  \* a path that is not a directory has nothing below it; a name is either
  \* a regular file or a subdirectory
  /\ rootIsDir \/ (dirName = SubName /\ \A d \in Dirs : files[d] = {})
  /\ \A d \in Dirs : files[d] \cap SubdirNames(d) = {}
  /\ recursive \in BOOLEAN
  /\ dry_run \in BOOLEAN
  /\ pc = "main"
  /\ todo = << >>
  /\ cur = Root
  /\ pending = {}
  /\ renamed = 0
  /\ skipped = 0
  /\ out = << >>
  /\ summary = << >>
  /\ err = << >>
  /\ exitcode = Running
  /\ run = 1
  /\ before = files
  /\ order = << >>
  /\ last = << >>
  /\ first = << >>
  /\ arg = << >>
  /\ ret = Unset

(* ------------------------------- main --------------------------------- *)
\* lines 65-68: the path is not a directory
MainInvalidRoot ==
  /\ pc = "main"
  /\ ~rootIsDir
  /\ err' = Append(err, "Error: not a directory")
  /\ exitcode' = 1
  /\ pc' = "exit"
  /\ UNCHANGED << files, dirName, rootIsDir, recursive, dry_run, todo, cur,
                  pending, renamed, skipped, out, summary, run, before,
                  order, last, first, arg, ret >>

\* line 70 and lines 32-35: rename_in_directory is called, its counters are
\* zero and the iterator is created over the root
MainStart ==
  /\ pc = "main"
  /\ rootIsDir
  /\ pc' = "walk"
  /\ renamed' = 0
  /\ skipped' = 0
  /\ todo' = << Root >>
  /\ cur' = Root
  /\ pending' = {}
  /\ UNCHANGED << files, dirName, rootIsDir, recursive, dry_run, out,
                  summary, err, exitcode, run, before, order, last, first,
                  arg, ret >>

\* mutant: the iterator goes into subdirectories whatever the flag says
NextDir_descending ==
  /\ pc = "walk"
  /\ pending = {}
  /\ todo # << >>
  /\ LET d == Head(todo)
     IN /\ cur' = d
        /\ pending' = Listing(files, d)
        /\ todo' = (IF Children(d) = {} THEN << >> ELSE << d + 1 >>)
                   \o Tail(todo)
  /\ UNCHANGED << files, dirName, rootIsDir, recursive, dry_run, pc, renamed,
                  skipped, out, summary, err, exitcode, run, before, order,
                  last, first, arg, ret >>

\* lines 35-36: the iterator has yielded every entry of the current listing
\* and lists the next directory; rglob goes on into its subdirectories
NextDir ==
  /\ pc = "walk"
  /\ pending = {}
  /\ todo # << >>
  /\ LET d == Head(todo)
     IN /\ cur' = d
        /\ pending' = Listing(files, d)
        /\ todo' = IF recursive
                   THEN (IF Children(d) = {} THEN << >> ELSE << d + 1 >>)
                        \o Tail(todo)
                   ELSE Tail(todo)
  /\ UNCHANGED << files, dirName, rootIsDir, recursive, dry_run, pc, renamed,
                  skipped, out, summary, err, exitcode, run, before, order,
                  last, first, arg, ret >>

\* lines 37-38: the entry is not a regular file
VisitNotFile(file) ==
  /\ pc = "walk"
  /\ file \in pending
  /\ file \notin files[cur]
  /\ pending' = pending \ {file}
  /\ order' = Append(order, << cur, file >>)
  /\ UNCHANGED << files, dirName, rootIsDir, recursive, dry_run, pc, todo,
                  cur, renamed, skipped, out, summary, err, exitcode, run,
                  before, last, first, arg, ret >>

\* lines 39-42: the name needs no change
VisitSkip(file) ==
  /\ pc = "walk"
  /\ file \in pending
  /\ file \in files[cur]
  /\ compute_target_name(file) = None
  /\ skipped' = skipped + 1
  /\ pending' = pending \ {file}
  /\ order' = Append(order, << cur, file >>)
  /\ UNCHANGED << files, dirName, rootIsDir, recursive, dry_run, pc, todo,
                  cur, renamed, out, summary, err, exitcode, run, before,
                  last, first, arg, ret >>

\* mutant: the dry run renames as well
VisitDryRun_renaming(file) ==
  /\ pc = "walk"
  /\ file \in pending
  /\ file \in files[cur]
  /\ compute_target_name(file) # None
  /\ dry_run
  /\ LET target_basename == compute_target_name(file)
         target == final_target(files, cur, target_basename)
     IN /\ files' = RenameFile(files, cur, file, target)
        /\ out' = Append(out, [kind |-> "[DRY-RUN]", old |-> file,
                                new |-> target])
        /\ last' = << Plan(cur, file, target_basename, target) >>
  /\ renamed' = renamed + 1
  /\ pending' = pending \ {file}
  /\ order' = Append(order, << cur, file >>)
  /\ UNCHANGED << dirName, rootIsDir, recursive, dry_run, pc, todo, cur,
                  skipped, summary, err, exitcode, run, before, first, arg,
                  ret >>

\* mutant: the dry run does not count what it reports
VisitDryRun_uncounted(file) ==
  /\ pc = "walk"
  /\ file \in pending
  /\ file \in files[cur]
  /\ compute_target_name(file) # None
  /\ dry_run
  /\ LET target_basename == compute_target_name(file)
         target == final_target(files, cur, target_basename)
     IN /\ out' = Append(out, [kind |-> "[DRY-RUN]", old |-> file,
                                new |-> target])
        /\ last' = << Plan(cur, file, target_basename, target) >>
  /\ pending' = pending \ {file}
  /\ order' = Append(order, << cur, file >>)
  /\ UNCHANGED << files, dirName, rootIsDir, recursive, dry_run, pc, todo,
                  cur, renamed, skipped, summary, err, exitcode, run, before,
                  first, arg, ret >>

\* lines 43-49, 53: dry run, the rename is only reported
VisitDryRun(file) ==
  /\ pc = "walk"
  /\ file \in pending
  /\ file \in files[cur]
  /\ compute_target_name(file) # None
  /\ dry_run
  /\ LET target_basename == compute_target_name(file)
         target == final_target(files, cur, target_basename)
     IN /\ out' = Append(out, [kind |-> "[DRY-RUN]", old |-> file,
                                new |-> target])
        /\ last' = << Plan(cur, file, target_basename, target) >>
  /\ renamed' = renamed + 1
  /\ pending' = pending \ {file}
  /\ order' = Append(order, << cur, file >>)
  /\ UNCHANGED << files, dirName, rootIsDir, recursive, dry_run, pc, todo,
                  cur, skipped, summary, err, exitcode, run, before, first,
                  arg, ret >>

\* lines 43-47, 50-53: real run, the rename succeeds
VisitRename(file) ==
  /\ pc = "walk"
  /\ file \in pending
  /\ file \in files[cur]
  /\ compute_target_name(file) # None
  /\ ~dry_run
  /\ LET target_basename == compute_target_name(file)
         target == final_target(files, cur, target_basename)
     IN /\ files' = RenameFile(files, cur, file, target)
        /\ out' = Append(out, [kind |-> "Renamed:", old |-> file,
                                new |-> target])
        /\ last' = << Plan(cur, file, target_basename, target) >>
  /\ renamed' = renamed + 1
  /\ pending' = pending \ {file}
  /\ order' = Append(order, << cur, file >>)
  /\ UNCHANGED << dirName, rootIsDir, recursive, dry_run, pc, todo, cur,
                  skipped, summary, err, exitcode, run, before, first, arg,
                  ret >>

\* mutant: the OSError is caught and reported, the loop goes on
VisitRenameFails_caught(file) ==
  /\ pc = "walk"
  /\ file \in pending
  /\ file \in files[cur]
  /\ compute_target_name(file) # None
  /\ ~dry_run
  /\ err' = Append(err, "Traceback: OSError")
  /\ pending' = pending \ {file}
  /\ order' = Append(order, << cur, file >>)
  /\ UNCHANGED << files, dirName, rootIsDir, recursive, dry_run, pc, todo,
                  cur, renamed, skipped, out, summary, exitcode, run, before,
                  last, first, arg, ret >>

\* line 51: file.rename raises OSError; nothing catches it, the exception
\* leaves rename_in_directory and main and the interpreter exits with 1
VisitRenameFails(file) ==
  /\ pc = "walk"
  /\ file \in pending
  /\ file \in files[cur]
  /\ compute_target_name(file) # None
  /\ ~dry_run
  /\ pc' = "crashed"
  /\ err' = Append(err, "Traceback: OSError")
  /\ exitcode' = 1
  /\ UNCHANGED << files, dirName, rootIsDir, recursive, dry_run, todo, cur,
                  pending, renamed, skipped, out, summary, run, before,
                  order, last, first, arg, ret >>

\* lines 55, 70-74: the loop is over, the summary is printed, main returns 0
Finish ==
  /\ pc = "walk"
  /\ pending = {}
  /\ todo = << >>
  /\ summary' = << [kind |-> IF dry_run THEN "Dry-run complete." ELSE "Done.",
                     renamed |-> renamed, skipped |-> skipped] >>
  /\ exitcode' = 0
  /\ pc' = "exit"
  /\ UNCHANGED << files, dirName, rootIsDir, recursive, dry_run, todo, cur,
                  pending, renamed, skipped, out, err, run, before, order,
                  last, first, arg, ret >>

\* lines 6-8: the tool is run again on the same path with the same
\* recursive flag, this time without --dry-run.  Of the first invocation the
\* counts are remembered, and its lines and iteration order if keep is TRUE.
RunAgain(keep) ==
  /\ pc = "exit"
  /\ exitcode = 0
  /\ run = 1
  /\ first' = << [dry |-> dry_run, renamed |-> renamed, skipped |-> skipped,
                   out |-> IF keep THEN out ELSE << >>,
                   order |-> IF keep THEN order ELSE << >>] >>
  /\ run' = 2
  /\ dry_run' = FALSE
  /\ pc' = "main"
  /\ before' = files
  /\ renamed' = 0
  /\ skipped' = 0
  /\ out' = << >>
  /\ summary' = << >>
  /\ err' = << >>
  /\ exitcode' = Running
  /\ order' = << >>
  /\ last' = << >>
  /\ UNCHANGED << files, dirName, rootIsDir, recursive, todo, cur, pending,
                  arg, ret >>

Reinvoke == RunAgain(FALSE)

ReinvokeAfterPreview == dry_run /\ RunAgain(TRUE)

\* one invocation of the program
Run ==
  \/ MainInvalidRoot
  \/ MainStart
  \/ NextDir
  \/ \E file \in pending : VisitNotFile(file)
  \/ \E file \in pending : VisitSkip(file)
  \/ \E file \in pending : VisitDryRun(file)
  \/ \E file \in pending : VisitRename(file)
  \/ \E file \in pending : VisitRenameFails(file)
  \/ Finish

Next == Run \/ Reinvoke

Spec == Init /\ [][Next]_vars

\* the dry run followed by the real run, the preview kept for comparison
NextPreview == Run \/ ReinvokeAfterPreview

InitPreview == Init /\ dry_run

SpecPreview == InitPreview /\ [][NextPreview]_vars

(* ------------------- compute_target_name on its own ------------------- *)
Alphabet == { "a", "@", "." }

\* every name of at most MaxLen characters, and the names of the trees
PureNames ==
  UNION { [1..n -> Alphabet] : n \in 1..MaxLen } \cup FileNames

InitPure ==
  /\ arg \in PureNames
  /\ ret = Unset
  /\ files = EmptyTree
  /\ rootIsDir = TRUE
  /\ dirName = SubName
  /\ recursive = FALSE
  /\ dry_run = FALSE
  /\ pc = "pure"
  /\ todo = << >>
  /\ cur = Root
  /\ pending = {}
  /\ renamed = 0
  /\ skipped = 0
  /\ out = << >>
  /\ summary = << >>
  /\ err = << >>
  /\ exitcode = Running
  /\ run = 1
  /\ before = EmptyTree
  /\ order = << >>
  /\ last = << >>
  /\ first = << >>

\* lines 20-27: compute_target_name(Path(arg)) is called
CallCompute ==
  /\ pc = "pure"
  /\ ret = Unset
  /\ ret' = compute_target_name(arg)
  /\ UNCHANGED << files, dirName, rootIsDir, recursive, dry_run, pc, todo,
                  cur, pending, renamed, skipped, out, summary, err,
                  exitcode, run, before, order, last, first, arg >>

SpecPure == InitPure /\ [][CallCompute]_vars

(* ------------------------------ claims -------------------------------- *)
HasAt(s) == \E k \in 1..Len(s) : s[k] = "@"

EndsWith(s, t) ==
  /\ Len(s) >= Len(t)
  /\ SubSeq(s, Len(s) - Len(t) + 1, Len(s)) = t

\* the (old name, new name) pairs of the per-file lines
Pairs(lines) == [i \in 1..Len(lines) |-> << lines[i].old, lines[i].new >>]

\* the regular .conf files of the directories an invocation walks
Scope == IF recursive THEN Dirs ELSE { Root }
ConfFiles(fs, d) == { n \in fs[d] : EndsWith(n, CONF) }
RECURSIVE SumOver(_, _)
SumOver(f, D) ==
  IF D = {} THEN 0
  ELSE LET d == CHOOSE x \in D : TRUE IN f[d] + SumOver(f, D \ {d})
CountWithAt(fs) ==
  SumOver([d \in Dirs |->
            Cardinality({ n \in ConfFiles(fs, d) : HasAt(Stem(n)) })], Scope)
CountWithoutAt(fs) ==
  SumOver([d \in Dirs |->
            Cardinality({ n \in ConfFiles(fs, d) : ~HasAt(Stem(n)) })], Scope)

Completed == pc = "exit" /\ exitcode = 0

\* C1: in a real run no rename lands on a name that exists in the file's
\* directory at that moment; every directory keeps its number of files and
\* every file whose stem has no '@' keeps its name.
C1_NoRenameOntoExisting ==
  /\ (last # << >> /\ ~last[1].dry) => last[1].final \notin last[1].existing
  /\ ~dry_run =>
       \A d \in Dirs :
         /\ Cardinality(files[d]) = Cardinality(before[d])
         /\ \A n \in before[d] : ~HasAt(Stem(n)) => n \in files[d]

\* the example of the claim: a@x.conf next to a.conf becomes a-1.conf
C1_Witness ==
  /\ Completed /\ ~dry_run
  /\ before[Root] = { <<"a", "@", "x">> \o CONF, <<"a">> \o CONF }
  /\ files[Root] = { <<"a", "-", "1">> \o CONF, <<"a">> \o CONF }

\* C2: during and after a dry run every directory holds the names it held
\* before the run.
C2_DryRunLeavesFiles == dry_run => files = before

C2_Witness ==
  /\ dry_run /\ Completed /\ recursive
  /\ renamed >= 2
  /\ \E d \in Dirs \ {Root} : \E n \in files[d] : HasAt(Stem(n)) /\ EndsWith(n, CONF)

\* C3: the real run that follows a dry run on the same tree returns the
\* renamed count the dry run returned, if no rename fails.
C3_DryCountIsRealCount ==
  (run = 2 /\ Completed /\ first[1].dry) => renamed = first[1].renamed

C3_Witness ==
  /\ run = 2 /\ Completed /\ first[1].dry
  /\ renamed >= 2
  /\ \E i \in 1..Len(out) : out[i].new # compute_target_name(out[i].old)

\* C4: a second real pass after a completed real pass renames nothing and
\* changes no file name.
C4_SecondPassIdle ==
  (run = 2 /\ ~first[1].dry) =>
    /\ renamed = 0
    /\ out = << >>
    /\ files = before

C4_Witness ==
  /\ run = 2 /\ ~first[1].dry /\ Completed
  /\ first[1].renamed >= 2
  /\ skipped >= 2

\* C5: compute_target_name returns None exactly when the stem has no '@';
\* otherwise it returns the part of the stem before its first '@' followed
\* by the suffix of the name.
C5_TargetName ==
  ret # Unset =>
    LET stem == Stem(arg)
    IN IF ~HasAt(stem) THEN ret = None
       ELSE /\ ret # None
            /\ \E k \in 1..Len(stem) :
                 /\ stem[k] = "@"
                 /\ \A j \in 1..(k - 1) : stem[j] # "@"
                 /\ ret = SubSeq(stem, 1, k - 1) \o Suffix(arg)

\* a name with a leading '@', a second '@' and an extension
C5_Witness ==
  /\ arg = <<"@", "@", ".", "a">>
  /\ ret = <<".", "a">>

\* C6: a desired name that exists in the file's own directory is replaced
\* by stem-i.ext for the lowest i >= 1 that does not exist there at that
\* moment; a desired name that does not exist is used as it is.  Here stem
\* and ext are the two arguments of next_available_name, the stem and the
\* suffix pathlib gives the desired name.
C6_LowestFreeIndex ==
  last # << >> =>
    LET p == last[1]
        Cand(i) == Stem(p.desired) \o <<"-">> \o DecStr(i) \o Suffix(p.desired)
    IN IF p.desired \in p.existing
       THEN \E i \in 1..(Cardinality(p.existing) + 1) :
              /\ p.final = Cand(i)
              /\ Cand(i) \notin p.existing
              /\ \A j \in 1..(i - 1) : Cand(j) \in p.existing
       ELSE p.final = p.desired

\* a.conf and a-1.conf are taken, the second by a rename made earlier in
\* the same run, in a directory below the root
C6_Witness ==
  /\ last # << >>
  /\ ~last[1].dry
  /\ last[1].dir # Root
  /\ last[1].final = <<"a", "-", "2">> \o CONF

\* C7: without the recursive flag only the .conf files of the root are
\* renamed and counted and no subdirectory changes; with it the .conf
\* files of every directory are, each within its own directory.
C7_RecursiveFlag ==
  /\ ~recursive => \A d \in Dirs \ {Root} : files[d] = before[d]
  /\ Completed =>
       /\ renamed = CountWithAt(before)
       /\ skipped = CountWithoutAt(before)
  /\ (Completed /\ ~dry_run) =>
       \A d \in Scope :
         /\ \A n \in ConfFiles(files, d) : ~HasAt(Stem(n))
         /\ Cardinality(files[d]) = Cardinality(before[d])

C7_Witness ==
  /\ Completed /\ recursive /\ ~dry_run /\ run = 1
  /\ \A d \in Dirs : files[d] # before[d]

\* C8: a rename that fails ends the run there: nothing is renamed, counted
\* or printed for the file, nothing happens afterwards, no summary line is
\* printed and the exit status is not 0.
C8_FailureIsFatal ==
  [][ /\ Len(err') > Len(err) =>
           /\ pc' \in {"crashed", "exit"}
           /\ exitcode' # 0
           /\ summary' = << >>
           /\ UNCHANGED << files, renamed, skipped, out, summary >>
      /\ pc = "crashed" => UNCHANGED vars ]_vars

C8_Witness ==
  /\ pc = "crashed"
  /\ renamed >= 1
  /\ files # before
  /\ Cardinality(pending) >= 2

\* C9: the final name of every rename ends in '.conf'.
C9_ExtensionKept ==
  last # << >> => EndsWith(last[1].final, CONF)

\* C10: the real run that follows a dry run and enumerates in the same
\* order performs the renames the dry run reported.
C10_PreviewIsFaithful ==
  (run = 2 /\ Completed /\ first[1].dry /\ order = first[1].order) =>
    Pairs(out) = Pairs(first[1].out)

====
